---- MODULE Spec2Model ----
(***************************************************************************)
(* A model of mne/fiff/proj.py: read_proj, write_proj, make_projector and  *)
(* compute_spatial_vectors.  Each function is a small state machine whose  *)
(* steps follow the statements of the source.  Four specifications run     *)
(* them on bounded sets of inputs: Spec (make_projector), SpecWrite        *)
(* (write_proj, then read_proj on what was written), SpecRead (read_proj   *)
(* on files of any content) and SpecCSV (compute_spatial_vectors).         *)
(* A definition named ...Mut is a faulty variant of the definition that    *)
(* follows it, kept to show that the properties tell the two apart.        *)
(*                                                                         *)
(* Numbers are integers.  A column of the vector matrix of make_projector  *)
(* is kept as (val, div2), standing for val / sqrt(div2), so that the      *)
(* rescaling of line 242 is exact.  The two singular value decompositions  *)
(* (scipy) are modelled by the shape of what they return.  Matrix values   *)
(* written to a file are small integers, which the file's floats hold      *)
(* exactly.                                                                *)
(***************************************************************************)
EXTENDS Integers, Sequences, FiniteSets, TLC

\* projs_none is TRUE when the argument projs of make_projector is None (projs
\* is then the empty list and is not looked at).
VARIABLES pc, projs, projs_none, ch_names, k, nactive, nvec, nonzero, vecs, ret,
          fid, stmt, items, projdata, global_nchan,
          info, n_req, n_use, nsamp

vars == <<pc, projs, projs_none, ch_names, k, nactive, nvec, nonzero, vecs, ret,
          fid, stmt, items, projdata, global_nchan,
          info, n_req, n_use, nsamp>>

mpVars == <<projs_none, ch_names, nactive, nvec, nonzero, vecs>>
ioVars == <<fid, stmt, items, projdata, global_nchan>>
csvVars == <<info, n_req, n_use, nsamp>>

(***************************************************************************)
(* Bounds of the model.                                                    *)
(***************************************************************************)
MaxItems == 2
MaxChan == 3
MaxVec == 2
MaxSamp == 2

(***************************************************************************)
(* Generic helpers.                                                        *)
(***************************************************************************)
Range(s) == {s[i] : i \in 1..Len(s)}

Min(a, b) == IF a < b THEN a ELSE b

SeqsUpTo(S, m) == UNION {[1..l -> S] : l \in 0..m}

RECURSIVE SumSeq(_)
SumSeq(s) == IF s = <<>> THEN 0 ELSE Head(s) + SumSeq(Tail(s))

\* Python's list.index: the first position holding x.
IndexOf(s, x) == CHOOSE i \in 1..Len(s) : s[i] = x /\ \A h \in 1..(i - 1) : s[h] # x

\* The value of FIFF.FIFFV_PROJ_ITEM_FIELD, and the kind of any other item.
FIFFV_PROJ_ITEM_FIELD == 1

\* The variables of the functions a specification does not run.
IdleMP ==
    /\ projs_none = FALSE /\ ch_names = <<>>
    /\ nactive = 0 /\ nvec = 0 /\ nonzero = 0 /\ vecs = <<>>

IdleCSV == info = <<>> /\ n_req = <<0, 0, 0>> /\ n_use = <<0, 0, 0>> /\ nsamp = 0

\* A projection item as the dictionaries of the source hold it.
MkProj(kind, active, desc, nrow, ncol, names, data) ==
    [kind |-> kind, active |-> active, desc |-> desc,
     data |-> [nrow |-> nrow, ncol |-> ncol, col_names |-> names, data |-> data]]

(***************************************************************************)
(* make_projector (lines 170-261).                                         *)
(***************************************************************************)
\* np.eye(nchan, nchan), as a sequence of rows.
Eye(nchan) == [r \in 1..nchan |-> [c \in 1..nchan |-> IF r = c THEN 1 ELSE 0]]

\* The value make_projector returns or the error it raises.  proj is
\* mat - U U^T for the first sub columns of U (sub = 0: proj is mat itself).
MPRunning == [err |-> "running", item |-> 0, proj |-> [mat |-> <<>>, sub |-> 0], nproj |-> 0]
MPRaise(e, i) == [err |-> e, item |-> i, proj |-> [mat |-> <<>>, sub |-> 0], nproj |-> 0]
MPReturn(nchan, r) == [err |-> "none", item |-> 0, proj |-> [mat |-> Eye(nchan), sub |-> r], nproj |-> r]

\* Line 192.  (Variant: the test never fires.)
NoChannelsMut(nchan) == nchan < 0
NoChannels(nchan) == nchan = 0

\* Lines 206 and 218.  (Variant: the flag is ignored.)
IsActiveMut(p) == TRUE
IsActive(p) == p.active

\* Lines 219-220: len(col_names) != len(np.unique(col_names)).
\* (Variant: repeated names pass.)
HasDuplicatesMut(names) == FALSE
HasDuplicates(names) == Len(names) # Cardinality(Range(names))

\* Lines 205-208, the two counters.
RECURSIVE CountActive(_)
CountActive(ps) ==
    IF ps = <<>> THEN 0
    ELSE (IF IsActive(Head(ps)) THEN 1 ELSE 0) + CountActive(Tail(ps))

RECURSIVE CountVectors(_)
CountVectors(ps) ==
    IF ps = <<>> THEN 0
    ELSE (IF IsActive(Head(ps)) THEN Head(ps).data.nrow ELSE 0) + CountVectors(Tail(ps))

\* Line 214: np.zeros((nchan, nvec)), as a sequence of nvec columns.
ZeroCol(nchan) == [val |-> [r \in 1..nchan |-> 0], div2 |-> 1]
Zeros(nchan, m) == [c \in 1..m |-> ZeroCol(nchan)]

\* Lines 226-231: the target rows whose name the item has, in target order,
\* and for each of them the item's column.  (Variant of the second: always
\* the item's first column.)
Sel(names, cols) == SelectSeq([c \in 1..Len(names) |-> c], LAMBDA c : names[c] \in Range(cols))

VecSelMut(names, cols) == [i \in 1..Len(Sel(names, cols)) |-> 1]
VecSel(names, cols) ==
    LET sel == Sel(names, cols)
    IN  [i \in 1..Len(sel) |-> IndexOf(cols, names[sel[i]])]

\* (Variant of the scatter below: by position, whatever the names.)
PickMut(vs, p, names, off) ==
    [c \in 1..Len(vs) |->
        IF c > off /\ c <= off + p.data.nrow
        THEN [vs[c] EXCEPT !.val =
                [r \in 1..Len(names) |->
                    IF r <= p.data.ncol THEN p.data.data[c - off][r] ELSE vs[c].val[r]]]
        ELSE vs[c]]
\* Lines 234-236: vecs[sel, nvec + v] = data[v, vecsel] for every row v.
Pick(vs, p, names, off) ==
    LET sel == Sel(names, p.data.col_names)
        vecsel == VecSel(names, p.data.col_names)
        hit(r) == {i \in 1..Len(sel) : sel[i] = r}
    IN  [c \in 1..Len(vs) |->
            IF c > off /\ c <= off + p.data.nrow /\ Len(sel) > 0
            THEN [vs[c] EXCEPT !.val =
                    [r \in 1..Len(names) |->
                        IF hit(r) # {}
                        THEN p.data.data[c - off][vecsel[CHOOSE i \in hit(r) : TRUE]]
                        ELSE vs[c].val[r]]]
            ELSE vs[c]]

\* Line 240, squared: the sum of the squares of a column.
PSize2(col) == SumSeq([r \in 1..Len(col.val) |-> col.val[r] * col.val[r]])

\* Lines 239-243: the columns of the item, rescaled where psize > 0.
Rescale(vs, nrow, off) ==
    [c \in 1..Len(vs) |->
        IF c > off /\ c <= off + nrow /\ PSize2(vs[c]) > 0
        THEN [vs[c] EXCEPT !.div2 = PSize2(vs[c])]
        ELSE vs[c]]

NonzeroIn(vs, nrow, off) ==
    Cardinality({c \in (off + 1)..(off + nrow) : PSize2(vs[c]) > 0})

\* Lines 191-193.
MP_NoChannels ==
    /\ pc = "mp_start"
    /\ NoChannels(Len(ch_names))
    /\ ret' = MPRaise("InvalidChannelSet", 0)
    /\ pc' = "mp_done"
    /\ UNCHANGED <<projs, k, mpVars, ioVars, csvVars>>

\* Lines 195-201.
MP_NoProjs ==
    /\ pc = "mp_start"
    /\ ~NoChannels(Len(ch_names))
    /\ projs_none
    /\ ret' = MPReturn(Len(ch_names), 0)
    /\ pc' = "mp_done"
    /\ UNCHANGED <<projs, k, mpVars, ioVars, csvVars>>

\* Lines 203-211.
MP_NoActive ==
    /\ pc = "mp_start"
    /\ ~NoChannels(Len(ch_names))
    /\ ~projs_none
    /\ CountActive(projs) = 0
    /\ nactive' = 0
    /\ nvec' = CountVectors(projs)
    /\ ret' = MPReturn(Len(ch_names), 0)
    /\ pc' = "mp_done"
    /\ UNCHANGED <<projs, k, projs_none, ch_names, nonzero, vecs, ioVars, csvVars>>

\* Lines 203-216.
MP_Alloc ==
    /\ pc = "mp_start"
    /\ ~NoChannels(Len(ch_names))
    /\ ~projs_none
    /\ CountActive(projs) # 0
    /\ nactive' = CountActive(projs)
    /\ vecs' = Zeros(Len(ch_names), CountVectors(projs))
    /\ nvec' = 0
    /\ nonzero' = 0
    /\ k' = 1
    /\ pc' = "mp_loop"
    /\ UNCHANGED <<projs, projs_none, ch_names, ret, ioVars, csvVars>>

\* Lines 217-218, an item that is not active.
MP_Skip ==
    /\ pc = "mp_loop"
    /\ k <= Len(projs)
    /\ ~IsActive(projs[k])
    /\ k' = k + 1
    /\ UNCHANGED <<pc, projs, ret, mpVars, ioVars, csvVars>>

\* Lines 219-222.  The item index of the message counts from 0.
MP_Duplicate ==
    /\ pc = "mp_loop"
    /\ k <= Len(projs)
    /\ IsActive(projs[k])
    /\ HasDuplicates(projs[k].data.col_names)
    /\ ret' = MPRaise("DuplicateChannel", k - 1)
    /\ pc' = "mp_done"
    /\ UNCHANGED <<projs, k, mpVars, ioVars, csvVars>>

\* Lines 224-236.
MP_Pick ==
    /\ pc = "mp_loop"
    /\ k <= Len(projs)
    /\ IsActive(projs[k])
    /\ ~HasDuplicates(projs[k].data.col_names)
    /\ vecs' = Pick(vecs, projs[k], ch_names, nvec)
    /\ pc' = "mp_rescale"
    /\ UNCHANGED <<projs, k, projs_none, ch_names, nactive, nvec, nonzero, ret, ioVars, csvVars>>

\* Lines 238-245.
MP_Rescale ==
    /\ pc = "mp_rescale"
    /\ vecs' = Rescale(vecs, projs[k].data.nrow, nvec)
    /\ nonzero' = nonzero + NonzeroIn(vecs, projs[k].data.nrow, nvec)
    /\ nvec' = nvec + projs[k].data.nrow
    /\ k' = k + 1
    /\ pc' = "mp_loop"
    /\ UNCHANGED <<projs, projs_none, ch_names, nactive, ret, ioVars, csvVars>>

\* Lines 247-249.
MP_AllZero ==
    /\ pc = "mp_loop"
    /\ k > Len(projs)
    /\ nonzero = 0
    /\ ret' = MPReturn(Len(ch_names), 0)
    /\ pc' = "mp_done"
    /\ UNCHANGED <<projs, k, mpVars, ioVars, csvVars>>

\* Lines 251-261.  The decomposition keeps between 1 and min(nchan, nvec)
\* singular values: S[0] / S[0] = 1 > 1e-2 always counts.
MP_Svd ==
    /\ pc = "mp_loop"
    /\ k > Len(projs)
    /\ nonzero # 0
    /\ \E r \in 1..Min(Len(ch_names), nvec) : ret' = MPReturn(Len(ch_names), r)
    /\ pc' = "mp_done"
    /\ UNCHANGED <<projs, k, mpVars, ioVars, csvVars>>

(***************************************************************************)
(* The tagged file.  fid is the sequence of entries written so far: block  *)
(* starts, block ends and tags.  The primitives of write.py, tree.py and   *)
(* tag.py are modelled by what proj.py relies on: a tag is found in a node *)
(* when it lies directly in the node's block; a name list is the names     *)
(* joined with ":" (a name is a sequence of characters).                   *)
(***************************************************************************)
StartBlock(kind) == [op |-> "start", kind |-> kind, value |-> <<>>]
EndBlock(kind) == [op |-> "end", kind |-> kind, value |-> <<>>]
Tag(kind, data) == [op |-> "tag", kind |-> kind, value |-> data]

\* write_name_list: ":".join(names).
RECURSIVE Join(_)
Join(names) ==
    IF names = <<>> THEN <<>>
    ELSE IF Len(names) = 1 THEN names[1]
    ELSE names[1] \o <<":">> \o Join(Tail(names))

\* str.split(":"): the pieces between the colons; an empty string gives one
\* empty piece.
RECURSIVE Split(_)
Split(str) ==
    IF \A i \in 1..Len(str) : str[i] # ":" THEN <<str>>
    ELSE LET c == CHOOSE i \in 1..Len(str) :
                      str[i] = ":" /\ \A h \in 1..(i - 1) : str[h] # ":"
         IN  <<SubSeq(str, 1, c - 1)>> \o Split(SubSeq(str, c + 1, Len(str)))

\* The entry that closes the block opened at entry i.
RECURSIVE BlockEnd(_, _, _)
BlockEnd(s, i, depth) ==
    IF i > Len(s) THEN Len(s) + 1
    ELSE IF s[i].op = "start" THEN BlockEnd(s, i + 1, depth + 1)
    ELSE IF s[i].op = "end" THEN (IF depth = 1 THEN i ELSE BlockEnd(s, i + 1, depth - 1))
    ELSE BlockEnd(s, i + 1, depth)

\* dir_tree_find: the nodes of the given kind, in file order; a node is the
\* sequence of entries between its start and its end.
RECURSIVE dir_tree_find_from(_, _, _)
dir_tree_find_from(s, kind, i) ==
    IF i > Len(s) THEN <<>>
    ELSE IF s[i].op = "start" /\ s[i].kind = kind
         THEN LET e == BlockEnd(s, i + 1, 1)
              IN  <<SubSeq(s, i + 1, e - 1)>> \o dir_tree_find_from(s, kind, e + 1)
    ELSE dir_tree_find_from(s, kind, i + 1)

dir_tree_find(node, kind) == dir_tree_find_from(node, kind, 1)

\* The tags lying directly in a node, those of its sub-blocks left out.
RECURSIVE Directory(_, _)
Directory(node, i) ==
    IF i > Len(node) THEN <<>>
    ELSE IF node[i].op = "start" THEN Directory(node, BlockEnd(node, i + 1, 1) + 1)
    ELSE IF node[i].op = "tag" THEN <<node[i]>> \o Directory(node, i + 1)
    ELSE Directory(node, i + 1)

\* find_tag: the first tag of the kind in the node, or None (found = FALSE).
find_tag(node, kind) ==
    LET dir == Directory(node, 1)
        at == {i \in 1..Len(dir) : dir[i].kind = kind}
    IN  IF at = {} THEN [found |-> FALSE, tag |-> Tag(kind, <<>>)]
        ELSE [found |-> TRUE, tag |-> dir[CHOOSE i \in at : \A h \in at : i <= h]]

(***************************************************************************)
(* write_proj (lines 134-164).                                             *)
(***************************************************************************)
\* Lines 149-162: what is written for one item, in the order of the
\* statements.  (Variant: the kind before the name.)
ItemBodyMut(proj) ==
    <<StartBlock("FIFFB_PROJ_ITEM"),
      Tag("FIFF_PROJ_ITEM_KIND", proj.kind),
      Tag("FIFF_NAME", proj.desc)>>
    \o (IF proj.kind = FIFFV_PROJ_ITEM_FIELD
        THEN <<Tag("FIFF_PROJ_ITEM_TIME", 0)>> ELSE <<>>)
    \o <<Tag("FIFF_NCHAN", proj.data.ncol),
         Tag("FIFF_PROJ_ITEM_NVEC", proj.data.nrow),
         Tag("FIFF_MNE_PROJ_ITEM_ACTIVE", IF proj.active THEN 1 ELSE 0),
         Tag("FIFF_PROJ_ITEM_CH_NAME_LIST", Join(proj.data.col_names)),
         Tag("FIFF_PROJ_ITEM_VECTORS", proj.data.data),
         EndBlock("FIFFB_PROJ_ITEM")>>
ItemBody(proj) ==
    <<StartBlock("FIFFB_PROJ_ITEM"),
      Tag("FIFF_NAME", proj.desc),
      Tag("FIFF_PROJ_ITEM_KIND", proj.kind)>>
    \o (IF proj.kind = FIFFV_PROJ_ITEM_FIELD
        THEN <<Tag("FIFF_PROJ_ITEM_TIME", 0)>> ELSE <<>>)
    \o <<Tag("FIFF_NCHAN", proj.data.ncol),
         Tag("FIFF_PROJ_ITEM_NVEC", proj.data.nrow),
         Tag("FIFF_MNE_PROJ_ITEM_ACTIVE", IF proj.active THEN 1 ELSE 0),
         Tag("FIFF_PROJ_ITEM_CH_NAME_LIST", Join(proj.data.col_names)),
         Tag("FIFF_PROJ_ITEM_VECTORS", proj.data.data),
         EndBlock("FIFFB_PROJ_ITEM")>>

\* Line 146.
WP_StartProj ==
    /\ pc = "wp_start"
    /\ fid' = Append(fid, StartBlock("FIFFB_PROJ"))
    /\ k' = 1
    /\ stmt' = 1
    /\ pc' = "wp_loop"
    /\ UNCHANGED <<projs, ret, mpVars, items, projdata, global_nchan, csvVars>>

\* Lines 148-162, one write at a time.
WP_Stmt ==
    /\ pc = "wp_loop"
    /\ k <= Len(projs)
    /\ fid' = Append(fid, ItemBody(projs[k])[stmt])
    /\ IF stmt < Len(ItemBody(projs[k]))
       THEN stmt' = stmt + 1 /\ k' = k
       ELSE stmt' = 1 /\ k' = k + 1
    /\ UNCHANGED <<pc, projs, ret, mpVars, items, projdata, global_nchan, csvVars>>

\* Line 164.  The block written is what read_proj is then given.
WP_EndProj ==
    /\ pc = "wp_loop"
    /\ k > Len(projs)
    /\ fid' = Append(fid, EndBlock("FIFFB_PROJ"))
    /\ pc' = "rp_start"
    /\ UNCHANGED <<projs, k, ret, mpVars, stmt, items, projdata, global_nchan, csvVars>>

(***************************************************************************)
(* read_proj (lines 16-125).                                               *)
(***************************************************************************)
RPRunning == [err |-> "running", value |-> <<>>]
RPRaise(e) == [err |-> e, value |-> <<>>]
RPReturn(v) == [err |-> "none", value |-> v]

\* data.shape[1] of a matrix kept as a sequence of rows (one row at least).
Shape1(m) == IF m = <<>> THEN 0 ELSE Len(m[1])

\* Lines 49-53: the channel count of an item.
ResolveNchan(item, global) ==
    IF find_tag(item, "FIFF_NCHAN").found
    THEN [bound |-> TRUE, val |-> find_tag(item, "FIFF_NCHAN").tag.value]
    ELSE global

\* Lines 47-109: the item read from one node, or the error raised.
ReadItem(item, global) ==
    LET nchan == ResolveNchan(item, global)
        desc == find_tag(item, "FIFF_DESCRIPTION")
        name == find_tag(item, "FIFF_NAME")
        kind == find_tag(item, "FIFF_PROJ_ITEM_KIND")
        nv == find_tag(item, "FIFF_PROJ_ITEM_NVEC")
        nl == find_tag(item, "FIFF_PROJ_ITEM_CH_NAME_LIST")
        vectors == find_tag(item, "FIFF_PROJ_ITEM_VECTORS")
        active == find_tag(item, "FIFF_MNE_PROJ_ITEM_ACTIVE").found
        names == Split(nl.tag.value)
        bad(e) == [err |-> e, one |-> <<>>]
    IN  IF ~nchan.bound THEN bad("UnboundLocalError")
        ELSE IF ~desc.found /\ ~name.found THEN bad("MissingField description")
        ELSE IF ~kind.found THEN bad("MissingField kind")
        ELSE IF ~nv.found THEN bad("MissingField vector_count")
        ELSE IF ~nl.found THEN bad("MissingField channel_names")
        ELSE IF ~vectors.found THEN bad("MissingField data")
        ELSE IF Shape1(vectors.tag.value) # Len(names) THEN bad("ShapeMismatch")
        ELSE [err |-> "none",
              one |-> <<MkProj(kind.tag.value, active,
                               IF desc.found THEN desc.tag.value ELSE name.tag.value,
                               nv.tag.value, nchan.val, names, vectors.tag.value)>>]

\* Lines 36-38: no projection block.
RP_NoBlock ==
    /\ pc = "rp_start"
    /\ dir_tree_find(fid, "FIFFB_PROJ") = <<>>
    /\ ret' = RPReturn(<<>>)
    /\ pc' = "rp_done"
    /\ UNCHANGED <<projs, k, mpVars, fid, stmt, items, projdata, global_nchan, csvVars>>

\* Lines 36-44.
RP_Locate ==
    /\ pc = "rp_start"
    /\ dir_tree_find(fid, "FIFFB_PROJ") # <<>>
    /\ LET node == dir_tree_find(fid, "FIFFB_PROJ")[1]
           tag == find_tag(node, "FIFF_NCHAN")
       IN  /\ global_nchan' = (IF tag.found THEN [bound |-> TRUE, val |-> tag.tag.value]
                                ELSE global_nchan)
           /\ items' = dir_tree_find(node, "FIFFB_PROJ_ITEM")
    /\ projdata' = <<>>
    /\ k' = 1
    /\ pc' = "rp_loop"
    /\ UNCHANGED <<projs, ret, mpVars, fid, stmt, csvVars>>

\* Lines 45-111, an item that is read.
RP_Item ==
    /\ pc = "rp_loop"
    /\ k <= Len(items)
    /\ ReadItem(items[k], global_nchan).err = "none"
    /\ projdata' = projdata \o ReadItem(items[k], global_nchan).one
    /\ k' = k + 1
    /\ UNCHANGED <<pc, projs, ret, mpVars, fid, stmt, items, global_nchan, csvVars>>

\* Lines 45-104, an item that raises.
RP_Raise ==
    /\ pc = "rp_loop"
    /\ k <= Len(items)
    /\ ReadItem(items[k], global_nchan).err # "none"
    /\ ret' = RPRaise(ReadItem(items[k], global_nchan).err)
    /\ pc' = "rp_done"
    /\ UNCHANGED <<projs, k, mpVars, fid, stmt, items, projdata, global_nchan, csvVars>>

\* Lines 113-125.
RP_Return ==
    /\ pc = "rp_loop"
    /\ k > Len(items)
    /\ ret' = RPReturn(projdata)
    /\ pc' = "rp_done"
    /\ UNCHANGED <<projs, k, mpVars, fid, stmt, items, projdata, global_nchan, csvVars>>

(***************************************************************************)
(* compute_spatial_vectors (lines 286-339).  info is the type of every     *)
(* channel of the epochs, n_req the arguments <<n_grad, n_mag, n_eeg>>,    *)
(* n_use the same three as the function rebinds them, nsamp the number of  *)
(* columns of the data once epochs and samples are flattened (line 306).   *)
(***************************************************************************)
GroupTypes == <<"grad", "mag", "eeg">>

\* epochs.ch_names[c].
ChName(c) == <<"ch", c>>

\* pick_types: the indices of the channels of a type, in channel order.
pick_types(chs, type) == SelectSeq([c \in 1..Len(chs) |-> c], LAMBDA c : chs[c] = type)

\* Lines 312-320: a count asked of a group without channels is forced to 0.
Force(n, ind) == IF n > 0 /\ Len(ind) = 0 THEN 0 ELSE n

\* Lines 331-332: the reduced decomposition of a C x T matrix has min(C, T)
\* left singular vectors, of which [:, :n] keeps the first n at most.
\* (Variant: the slice is forgotten.)
LeadingVectorsMut(n, c, t) == Min(c, t)
LeadingVectors(n, c, t) == Min(n, Min(c, t))

\* Lines 333-337: the items of one group.  The components of a singular
\* vector are kept as names: <<g, v, c>> is component c of vector v of
\* group g.
GroupItems(g, ind, count) ==
    [v \in 1..count |->
        MkProj(1, TRUE, <<"MEG", v - 1>>, 1, Len(ind),
               [c \in 1..Len(ind) |-> ChName(ind[c])],
               <<[c \in 1..Len(ind) |-> <<g, v, c>>]>>)]

\* Lines 305-320.
CSV_Force ==
    /\ pc = "csv_start"
    /\ n_use' = [g \in 1..3 |-> Force(n_req[g], pick_types(info, GroupTypes[g]))]
    /\ projs' = <<>>
    /\ k' = 1
    /\ pc' = "csv_loop"
    /\ UNCHANGED <<ret, mpVars, ioVars, info, n_req, nsamp>>

\* Lines 326-330: a group of which nothing is asked.
CSV_Skip ==
    /\ pc = "csv_loop"
    /\ k <= 3
    /\ n_use[k] = 0
    /\ k' = k + 1
    /\ UNCHANGED <<pc, projs, ret, mpVars, ioVars, csvVars>>

\* Lines 326-337.
CSV_Group ==
    /\ pc = "csv_loop"
    /\ k <= 3
    /\ n_use[k] # 0
    /\ LET ind == pick_types(info, GroupTypes[k])
       IN  projs' = projs \o GroupItems(k, ind, LeadingVectors(n_use[k], Len(ind), nsamp))
    /\ k' = k + 1
    /\ UNCHANGED <<pc, ret, mpVars, ioVars, csvVars>>

\* Line 339.
CSV_Return ==
    /\ pc = "csv_loop"
    /\ k > 3
    /\ ret' = RPReturn(projs)
    /\ pc' = "csv_done"
    /\ UNCHANGED <<projs, k, mpVars, ioVars, csvVars>>

(***************************************************************************)
(* The arguments make_projector is run on.                                 *)
(***************************************************************************)
\* Channel-name lists of an item: in target order, permuted, with a repeated
\* name.
ColNameLists == {<<"A">>, <<"B">>, <<"A", "B">>, <<"B", "A">>, <<"A", "A">>}

\* One scale per row of an item; row v is scale * (10 v + 1, 10 v + 2, ...),
\* so a scale of 0 gives a vector that is exactly zero.
RowScales == {<<>>, <<0>>, <<1>>, <<1, 0>>}

\* The target channel lists.
TargetLists == {<<>>, <<"A">>, <<"C">>, <<"B", "A">>, <<"A", "C">>, <<"A", "A">>}

RowData(scales, ncol) == [v \in 1..Len(scales) |-> [c \in 1..ncol |-> scales[v] * (10 * v + c)]]

MPItems ==
    {MkProj(FIFFV_PROJ_ITEM_FIELD, a, "p", Len(sc), Len(nm), nm, RowData(sc, Len(nm))) :
        a \in BOOLEAN, nm \in ColNameLists, sc \in RowScales}

MPInit ==
    /\ pc = "mp_start"
    /\ projs_none \in BOOLEAN
    /\ projs \in (IF projs_none THEN {<<>>} ELSE SeqsUpTo(MPItems, MaxItems))
    /\ ch_names \in TargetLists
    /\ k = 0 /\ nactive = 0 /\ nvec = 0 /\ nonzero = 0 /\ vecs = <<>>
    /\ ret = MPRunning
    /\ fid = <<>> /\ stmt = 0 /\ items = <<>> /\ projdata = <<>>
    /\ global_nchan = [bound |-> FALSE, val |-> 0]
    /\ IdleCSV

MPNext ==
    \/ MP_NoChannels \/ MP_NoProjs \/ MP_NoActive \/ MP_Alloc \/ MP_Skip
    \/ MP_Duplicate \/ MP_Pick \/ MP_Rescale \/ MP_AllZero \/ MP_Svd

Spec == MPInit /\ [][MPNext]_vars

(***************************************************************************)
(* Properties of make_projector, checked under Spec.                       *)
(***************************************************************************)
IsIdentity(m, size) ==
    /\ Len(m) = size
    /\ \A r \in 1..size :
          /\ Len(m[r]) = size
          /\ \A c \in 1..size : m[r][c] = (IF r = c THEN 1 ELSE 0)

ReturnsIdentity ==
    /\ ret.err = "none"
    /\ IsIdentity(ret.proj.mat, Len(ch_names))
    /\ ret.proj.sub = 0
    /\ ret.nproj = 0

Repeats(names) == \E a, b \in 1..Len(names) : a # b /\ names[a] = names[b]

ActiveSet == {i \in 1..Len(projs) : projs[i].active}

DupSet == {i \in ActiveSet : Repeats(projs[i].data.col_names)}

Disjoint(i) == Range(projs[i].data.col_names) \cap Range(ch_names) = {}

\* The number of columns before the block of item i, and the number of all.
BlockStart(i) ==
    SumSeq([h \in 1..(i - 1) |-> IF projs[h].active THEN projs[h].data.nrow ELSE 0])

TotalVectors == BlockStart(Len(projs) + 1)

\* C2: with an empty channel-name list make_projector raises
\* InvalidChannelSet whatever the item list is, and returns no projector: it
\* never gets past its first test.
C2_EmptyChannelsFail ==
    ch_names = <<>> =>
        /\ pc \in {"mp_start", "mp_done"}
        /\ pc = "mp_done" => ret.err = "InvalidChannelSet"

C2_Witness ==
    /\ pc = "mp_done" /\ ch_names = <<>>
    /\ ~projs_none /\ DupSet # {} /\ Len(projs) = 2
    /\ ret.err = "InvalidChannelSet"

\* C3: for a non-empty channel-name list of size N, an item list that is
\* absent, empty or without an active item gives the N x N identity with
\* rank 0 and no error, whatever the inactive items hold.
C3_NoActiveIdentity ==
    (pc = "mp_done" /\ ch_names # <<>> /\ (projs_none \/ ActiveSet = {}))
        => ReturnsIdentity

C3_Witness ==
    /\ pc = "mp_done" /\ Len(ch_names) = 2
    /\ ~projs_none /\ Len(projs) = 2 /\ ActiveSet = {}
    /\ Repeats(projs[1].data.col_names)
    /\ ~Disjoint(2)
    /\ ReturnsIdentity

\* C4 as stated: whenever an active item has a repeated channel name,
\* make_projector raises DuplicateChannel naming such an item.
C4_AsStated ==
    (pc = "mp_done" /\ ~projs_none /\ DupSet # {})
        => (ret.err = "DuplicateChannel" /\ ret.item + 1 \in DupSet)

\* C4, amended: when the target channel list is not empty and an active item
\* has a repeated channel name, make_projector raises DuplicateChannel with
\* the index of the first such item and returns no projector, wherever the
\* item sits and whether or not its names meet the target channels.
C4_DuplicateRaises ==
    (pc = "mp_done" /\ ch_names # <<>> /\ ~projs_none /\ DupSet # {})
        => /\ ret.err = "DuplicateChannel"
           /\ ret.item + 1 \in DupSet
           /\ \A i \in DupSet : ret.item + 1 <= i

C4_Witness ==
    /\ pc = "mp_done" /\ ch_names = <<"C">>
    /\ ~projs_none /\ Len(projs) = 2
    /\ projs[1].active /\ ~Repeats(projs[1].data.col_names)
    /\ DupSet = {2}
    /\ ret.err = "DuplicateChannel" /\ ret.item = 1

\* C5 as stated: a sole active item sharing no name with the target list
\* makes make_projector return the identity with rank 0, never an error.
C5_AsStated ==
    (pc = "mp_done" /\ ~projs_none /\ Cardinality(ActiveSet) = 1
        /\ \A i \in ActiveSet : Disjoint(i))
        => ReturnsIdentity

\* C5, amended: for a non-empty target list, an active item without a
\* repeated name that shares no name with the target list contributes only
\* all-zero columns to the vector matrix, and when it is the only active
\* item make_projector returns the identity with rank 0 and no error.
C5_DisjointIsZero ==
    /\ pc \in {"mp_loop", "mp_rescale"} =>
          \A i \in ActiveSet :
              (Disjoint(i) /\ (i < k \/ (i = k /\ pc = "mp_rescale"))) =>
                  \A v \in 1..projs[i].data.nrow :
                      \A r \in 1..Len(ch_names) : vecs[BlockStart(i) + v].val[r] = 0
    /\ (pc = "mp_done" /\ ch_names # <<>> /\ ~projs_none
            /\ Cardinality(ActiveSet) = 1
            /\ \A i \in ActiveSet : Disjoint(i) /\ ~Repeats(projs[i].data.col_names))
          => ReturnsIdentity

C5_Witness ==
    /\ pc = "mp_done" /\ ch_names = <<"A", "C">>
    /\ ~projs_none /\ Len(projs) = 2 /\ ActiveSet = {2}
    /\ projs[2].data.col_names = <<"B">>
    /\ projs[2].data.data[1][1] # 0
    /\ nvec = 1 /\ Len(vecs) = 1
    /\ ReturnsIdentity

ChA == <<"A">>
ChB1 == <<"B", "1">>

IONameLists == {<<ChA>>, <<ChA, ChB1>>, <<ChB1, ChA>>}

WPItems ==
    {MkProj(kd, a, "ecg", Len(sc), Len(nm), nm, RowData(sc, Len(nm))) :
        kd \in {FIFFV_PROJ_ITEM_FIELD, FIFFV_PROJ_ITEM_FIELD + 1},
        a \in BOOLEAN, nm \in IONameLists, sc \in {<<1>>, <<1, 2>>}}

WPInit ==
    /\ pc = "wp_start"
    /\ projs \in SeqsUpTo(WPItems, MaxItems)
    /\ fid = <<>> /\ stmt = 0 /\ k = 0
    /\ items = <<>> /\ projdata = <<>>
    /\ global_nchan = [bound |-> FALSE, val |-> 0]
    /\ ret = RPRunning
    /\ IdleMP /\ IdleCSV

WPNext == WP_StartProj \/ WP_Stmt \/ WP_EndProj \/ RP_Locate \/ RP_Item \/ RP_Return

SpecWrite == WPInit /\ [][WPNext]_vars

\* The nodes of projection items a file may hold: every tag present or not,
\* the channel count right or wrong, or one of the required tags missing.
Opt(kind, vals) == {<<>>} \cup {<<Tag(kind, v)>> : v \in vals}

DescTags ==
    {<<Tag("FIFF_DESCRIPTION", "d")>>, <<Tag("FIFF_NAME", "n")>>,
     <<Tag("FIFF_NAME", "n"), Tag("FIFF_DESCRIPTION", "d")>>}

ShapeTags ==
    {<<Tag("FIFF_PROJ_ITEM_CH_NAME_LIST", Join(<<ChA>>)),
       Tag("FIFF_PROJ_ITEM_VECTORS", RowData(<<1>>, 1))>>,
     <<Tag("FIFF_PROJ_ITEM_CH_NAME_LIST", Join(<<ChA, ChB1>>)),
       Tag("FIFF_PROJ_ITEM_VECTORS", RowData(<<1>>, 2))>>}

BadTags ==
    {<<Tag("FIFF_PROJ_ITEM_KIND", 1), Tag("FIFF_PROJ_ITEM_NVEC", 1),
       Tag("FIFF_PROJ_ITEM_CH_NAME_LIST", Join(<<ChA>>)),
       Tag("FIFF_PROJ_ITEM_VECTORS", RowData(<<1>>, 1))>>,
     <<Tag("FIFF_NAME", "n"), Tag("FIFF_PROJ_ITEM_NVEC", 1),
       Tag("FIFF_PROJ_ITEM_CH_NAME_LIST", Join(<<ChA>>)),
       Tag("FIFF_PROJ_ITEM_VECTORS", RowData(<<1>>, 1))>>,
     <<Tag("FIFF_NAME", "n"), Tag("FIFF_PROJ_ITEM_KIND", 1),
       Tag("FIFF_PROJ_ITEM_CH_NAME_LIST", Join(<<ChA>>)),
       Tag("FIFF_PROJ_ITEM_VECTORS", RowData(<<1>>, 1))>>,
     <<Tag("FIFF_NAME", "n"), Tag("FIFF_PROJ_ITEM_KIND", 1), Tag("FIFF_PROJ_ITEM_NVEC", 1),
       Tag("FIFF_PROJ_ITEM_VECTORS", RowData(<<1>>, 1))>>,
     <<Tag("FIFF_NAME", "n"), Tag("FIFF_PROJ_ITEM_KIND", 1), Tag("FIFF_PROJ_ITEM_NVEC", 1),
       Tag("FIFF_PROJ_ITEM_CH_NAME_LIST", Join(<<ChA>>))>>,
     <<Tag("FIFF_NAME", "n"), Tag("FIFF_PROJ_ITEM_KIND", 1), Tag("FIFF_PROJ_ITEM_NVEC", 1),
       Tag("FIFF_PROJ_ITEM_CH_NAME_LIST", Join(<<ChA>>)),
       Tag("FIFF_PROJ_ITEM_VECTORS", RowData(<<1>>, 2))>>}

ItemNodes ==
    {act \o nch \o dsc \o <<Tag("FIFF_PROJ_ITEM_KIND", 1), Tag("FIFF_PROJ_ITEM_NVEC", 1)>> \o shp :
        act \in Opt("FIFF_MNE_PROJ_ITEM_ACTIVE", {0, 1}),
        nch \in Opt("FIFF_NCHAN", {1, 2}),
        dsc \in DescTags, shp \in ShapeTags}
    \cup {nch \o bad : nch \in Opt("FIFF_NCHAN", {1}), bad \in BadTags}

RECURSIVE ItemBlocks(_)
ItemBlocks(nodes) ==
    IF nodes = <<>> THEN <<>>
    ELSE <<StartBlock("FIFFB_PROJ_ITEM")>> \o Head(nodes)
         \o <<EndBlock("FIFFB_PROJ_ITEM")>> \o ItemBlocks(Tail(nodes))

ReadFiles(most) ==
    {<<StartBlock("FIFFB_MEAS_INFO"), Tag("FIFF_NCHAN", 2), EndBlock("FIFFB_MEAS_INFO")>>}
    \cup {<<StartBlock("FIFFB_PROJ")>> \o g \o ItemBlocks(nodes) \o <<EndBlock("FIFFB_PROJ")>> :
            g \in Opt("FIFF_NCHAN", {2}), nodes \in SeqsUpTo(ItemNodes, most)}

RPInit ==
    /\ pc = "rp_start"
    /\ fid \in ReadFiles(MaxItems)
    /\ projs = <<>> /\ stmt = 0 /\ k = 0
    /\ items = <<>> /\ projdata = <<>>
    /\ global_nchan = [bound |-> FALSE, val |-> 0]
    /\ ret = RPRunning
    /\ IdleMP /\ IdleCSV

RPNext == RP_NoBlock \/ RP_Locate \/ RP_Item \/ RP_Raise \/ RP_Return

SpecRead == RPInit /\ [][RPNext]_vars

(***************************************************************************)
(* Properties of write_proj and read_proj.                                 *)
(***************************************************************************)
RECURSIVE OpenBlocks(_)
OpenBlocks(s) ==
    IF s = <<>> THEN <<>>
    ELSE LET before == OpenBlocks(SubSeq(s, 1, Len(s) - 1))
             last == s[Len(s)]
         IN  IF last.op = "start" THEN Append(before, last.kind)
             ELSE IF last.op = "end" /\ before # <<>>
                  THEN SubSeq(before, 1, Len(before) - 1)
             ELSE before

\* The items of the file, as the sequences of entries between the start and
\* the end of each item sub-block.
Written == dir_tree_find(fid, "FIFFB_PROJ_ITEM")

WriteDone == pc \in {"rp_start", "rp_loop", "rp_done"}

\* C6: each item is written inside one begin/end item sub-block as name
\* (the description), kind, a zero time field if and only if the kind is the
\* field-type code, channel count, vector count, active marker, colon-joined
\* channel names, data matrix; the items come in list order, each sub-block
\* is closed before the next one opens, and all lie between one begin and
\* one end of the projection block.
C6_WriteOrder ==
    /\ OpenBlocks(fid) \in {<<>>, <<"FIFFB_PROJ">>, <<"FIFFB_PROJ", "FIFFB_PROJ_ITEM">>}
    /\ Cardinality({i \in 1..Len(fid) : fid[i].kind = "FIFFB_PROJ" /\ fid[i].op = "start"})
          = (IF pc = "wp_start" THEN 0 ELSE 1)
    /\ \A i \in 1..Len(Written) :
          /\ i <= Len(projs)
          /\ LET p == projs[i]
                 w == Written[i]
                 time == p.kind = FIFFV_PROJ_ITEM_FIELD
                 want == <<"FIFF_NAME", "FIFF_PROJ_ITEM_KIND">>
                         \o (IF time THEN <<"FIFF_PROJ_ITEM_TIME">> ELSE <<>>)
                         \o <<"FIFF_NCHAN", "FIFF_PROJ_ITEM_NVEC", "FIFF_MNE_PROJ_ITEM_ACTIVE",
                              "FIFF_PROJ_ITEM_CH_NAME_LIST", "FIFF_PROJ_ITEM_VECTORS">>
                 off == IF time THEN 1 ELSE 0
             IN  /\ Len(w) <= Len(want)
                 /\ (i < Len(Written) \/ WriteDone) => Len(w) = Len(want)
                 /\ [h \in 1..Len(w) |-> w[h].kind] = SubSeq(want, 1, Len(w))
                 /\ \A h \in 1..Len(w) : w[h].op = "tag"
                 /\ Len(w) >= 1 => w[1].value = p.desc
                 /\ Len(w) >= 2 => w[2].value = p.kind
                 /\ (time /\ Len(w) >= 3) => w[3].value = 0
                 /\ Len(w) >= 3 + off => w[3 + off].value = p.data.ncol
                 /\ Len(w) >= 4 + off => w[4 + off].value = p.data.nrow
                 /\ Len(w) >= 6 + off => w[6 + off].value = Join(p.data.col_names)
                 /\ Len(w) >= 7 + off => w[7 + off].value = p.data.data
    /\ WriteDone =>
          /\ Len(Written) = Len(projs)
          /\ fid[1] = StartBlock("FIFFB_PROJ")
          /\ fid[Len(fid)] = EndBlock("FIFFB_PROJ")
          /\ OpenBlocks(fid) = <<>>
          /\ Len(fid) = 2 + SumSeq([i \in 1..Len(projs) |-> Len(Written[i]) + 2])

C6_Witness ==
    /\ pc = "rp_start" /\ Len(projs) = 2
    /\ projs[1].kind # FIFFV_PROJ_ITEM_FIELD /\ projs[2].kind = FIFFV_PROJ_ITEM_FIELD
    /\ Len(fid) = 21
    /\ fid[12].kind = "FIFF_NAME" /\ fid[14].kind = "FIFF_PROJ_ITEM_TIME"

\* C1: reading what write_proj wrote gives a list of the same length and
\* order whose items have the kind, the active flag, the description, the
\* channel names in order and the data values of the items written, the
\* items that are not active included.
C1_RoundTrip ==
    pc = "rp_done" =>
        /\ ret.err = "none"
        /\ Len(ret.value) = Len(projs)
        /\ \A i \in 1..Len(projs) :
              /\ ret.value[i].kind = projs[i].kind
              /\ ret.value[i].active = projs[i].active
              /\ ret.value[i].desc = projs[i].desc
              /\ ret.value[i].data.col_names = projs[i].data.col_names
              /\ ret.value[i].data.data = projs[i].data.data

\* The errors read_proj declares.
DeclaredReadErrors ==
    {"MissingField description", "MissingField kind", "MissingField vector_count",
     "MissingField channel_names", "MissingField data", "ShapeMismatch"}

TagValues(node, kind) == {node[i].value : i \in {h \in 1..Len(node) : node[h].kind = kind}}

BlockNchan == TagValues(dir_tree_find(fid, "FIFFB_PROJ")[1], "FIFF_NCHAN")

\* C8: the channel count of an item read is the item's own channel-count tag
\* when it has one and the block-level tag otherwise; an item with neither
\* ends read_proj in one of its declared failures, never in an undeclared
\* error.
C8_NchanResolution ==
    pc = "rp_done" =>
        /\ ret.err \in {"none"} \cup DeclaredReadErrors
        /\ \A i \in 1..Len(projdata) :
              LET own == TagValues(items[i], "FIFF_NCHAN")
              IN  projdata[i].data.ncol \in (IF own # {} THEN own ELSE BlockNchan)
        /\ (\E i \in 1..Len(items) :
                TagValues(items[i], "FIFF_NCHAN") = {} /\ BlockNchan = {})
              => ret.err \in DeclaredReadErrors

\* C9: every item read_proj returns has as many channel names as its
\* recorded column count and as its data matrix has columns.
C9_NamedMatrix ==
    (pc = "rp_done" /\ ret.err = "none") =>
        \A i \in 1..Len(ret.value) :
            /\ Len(ret.value[i].data.col_names) = ret.value[i].data.ncol
            /\ \A r \in 1..Len(ret.value[i].data.data) :
                  Len(ret.value[i].data.data[r]) = ret.value[i].data.ncol

(***************************************************************************)
(* The epochs compute_spatial_vectors is run on, and its properties.       *)
(***************************************************************************)
CSVInit ==
    /\ pc = "csv_start"
    /\ info \in SeqsUpTo(Range(GroupTypes), MaxChan)
    /\ n_req \in [1..3 -> 0..MaxVec]
    /\ n_use = n_req
    /\ nsamp \in 1..MaxSamp
    /\ projs = <<>> /\ k = 0
    /\ fid = <<>> /\ stmt = 0 /\ items = <<>> /\ projdata = <<>>
    /\ global_nchan = [bound |-> FALSE, val |-> 0]
    /\ ret = RPRunning
    /\ IdleMP

CSVNext == CSV_Force \/ CSV_Skip \/ CSV_Group \/ CSV_Return

SpecCSV == CSVInit /\ [][CSVNext]_vars

\* The channels of group g, and the names they have.
GroupChannels(g) == {c \in 1..Len(info) : info[c] = GroupTypes[g]}

GroupNames(g) ==
    SelectSeq([c \in 1..Len(info) |-> <<"ch", c>>], LAMBDA nm : nm[2] \in GroupChannels(g))

\* The group an item belongs to: the one whose channel names it carries.
GroupOf(p) == {g \in 1..3 : GroupChannels(g) # {} /\ p.data.col_names = GroupNames(g)}

ItemsOf(g) == {i \in 1..Len(ret.value) : g \in GroupOf(ret.value[i])}

\* C7: a group of which 0 vectors are asked, or without channels, gives no
\* item; a group of which k are asked and that has k singular vectors at
\* least gives exactly k items, each active, with one row as long as the
\* group has channels and the group's channel names as column names; the
\* items come group after group: gradiometers, magnetometers, EEG.
C7_SpatialVectors ==
    pc = "csv_done" =>
        /\ ret.err = "none"
        /\ \A i \in 1..Len(ret.value) :
              LET p == ret.value[i]
              IN  /\ p.active
                  /\ Cardinality(GroupOf(p)) = 1
                  /\ p.data.nrow = 1 /\ Len(p.data.data) = 1
                  /\ \A g \in GroupOf(p) :
                        /\ Len(p.data.data[1]) = Cardinality(GroupChannels(g))
                        /\ p.data.ncol = Cardinality(GroupChannels(g))
        /\ \A g \in 1..3 :
              /\ (n_req[g] = 0 \/ GroupChannels(g) = {}) => ItemsOf(g) = {}
              /\ n_req[g] <= Min(Cardinality(GroupChannels(g)), nsamp)
                    => Cardinality(ItemsOf(g)) = n_req[g]
        /\ \A i, h \in 1..Len(ret.value) :
              i < h => \A g \in GroupOf(ret.value[i]), f \in GroupOf(ret.value[h]) : g <= f

C7_Witness ==
    /\ pc = "csv_done"
    /\ info = <<"eeg", "grad", "eeg">>
    /\ n_req = <<1, 2, 2>> /\ nsamp = 2
    /\ Len(ret.value) = 3
    /\ ret.value[1].data.col_names = <<ChName(2)>>
    /\ ret.value[3].data.col_names = <<ChName(1), ChName(3)>>

====
